---- MODULE Spec2Model ----
(***************************************************************************)
(* Frame lifecycle and surface management of wgpu-tutorial.                *)
(*                                                                         *)
(* Two state machines are modelled, one per source file:                   *)
(*   - renderer.rs: Renderer::initialize / resize_surface / draw, driven   *)
(*     by an arbitrary caller (specification Spec);                        *)
(*   - main.rs: the winit ApplicationHandler App with its inline resize    *)
(*     and redraw handling (specification AppSpec).                        *)
(*                                                                         *)
(* The wgpu surface, device and queue are external collaborators: they are *)
(* modelled by the calls the program makes on them (recorded in a log, in  *)
(* program order) and by the little state those calls determine: the       *)
(* configuration in force and the frames handed out and not yet presented. *)
(* The result of get_current_texture is an input of each draw.             *)
(***************************************************************************)
EXTENDS Integers, Sequences, FiniteSets, TLC

\* Number of calls (handler invocations) explored by the model checker.
MaxEvents == 4

\* Window sizes delivered by the windowing system: <<width, height>>.
\* 800x600 and 400x400 are the sizes of the specification's scenario; 0x0 is
\* what a minimised window reports.
WindowSizes == << <<800, 600>>, <<400, 400>>, <<0, 0>> >>

Sizes == { WindowSizes[i] : i \in DOMAIN WindowSizes }

\* surface_capabilities.formats as reported by the adapter.
FormatLists ==
    { <<"Bgra8UnormSrgb", "Bgra8Unorm">>,
      <<"Bgra8Unorm", "Bgra8UnormSrgb">>,
      <<"Bgra8Unorm">> }

\* Result<SurfaceTexture, wgpu::SurfaceError> of Surface::get_current_texture.
Outcomes == { "Ok", "Timeout", "Outdated", "Lost", "OutOfMemory" }

\* What the machine offers when App::resumed asks for a GPU: an adapter and
\* a device, no adapter, or an adapter that yields no device.
GpuOutcomes == { "Ok", "NoAdapter", "NoDevice" }

VARIABLES
    renderer,     \* renderer.rs: the Renderer struct
    surface,      \* renderer.rs: the wgpu surface behind Renderer.surface
    log,          \* renderer.rs: calls made on the Renderer and by it, in order
    app,          \* main.rs: the App enum with its Renderer, and the event loop
    app_surface,  \* main.rs: the wgpu surface behind App::Main.renderer.surface
    app_log,      \* main.rs: events delivered to App and the calls it made
    camera,       \* camera.rs: a Camera on its own (specification CameraSpec)
    view_proj     \* camera.rs: what build_view_projection_matrix returned for it

vars == <<renderer, surface, log, app, app_surface, app_log, camera, view_proj>>

----------------------------------------------------------------------------
(* The log *)

\* One logged call: its name, the size it carries, its result, the frame it
\* concerns (0: none).
Entry(op, w, h, res, frame) ==
    [op |-> op, w |-> w, h |-> h, res |-> res, frame |-> frame]

\* Entries that mark the entry into a handler or public method.
CallOps ==
    { "resize_surface", "draw",
      "resumed", "CloseRequested", "Resized", "RedrawRequested", "about_to_wait" }

NumCalls(l) == Cardinality({ i \in DOMAIN l : l[i].op \in CallOps })

Call(w, op, size) ==
    [w EXCEPT !.log = Append(@, Entry(op, size[1], size[2], "-", 0))]

----------------------------------------------------------------------------
(* The wgpu collaborators, as the program uses them *)

\* .iter().find(|format| format.is_srgb()).copied()
is_srgb(format) == format = "Bgra8UnormSrgb"

\* surface.configure(&device, &config): the configuration is in force from
\* now on.
configure(w, config) ==
    [w EXCEPT !.surface.config = config,
              !.log = Append(@, Entry("configure", config.width, config.height, "-", 0))]

\* surface.get_current_texture(): on Ok a new frame, of the configured size,
\* is handed out; frames are numbered in the order they are handed out.
get_current_texture(w, outcome) ==
    IF outcome = "Ok"
    THEN [w EXCEPT !.surface.acquired = @ + 1,
                   !.surface.outstanding = @ \cup { w.surface.acquired + 1 },
                   !.log = Append(@, Entry("get_current_texture",
                                           w.surface.config.width,
                                           w.surface.config.height,
                                           "Ok", w.surface.acquired + 1))]
    ELSE [w EXCEPT !.log = Append(@, Entry("get_current_texture", 0, 0, outcome, 0))]

\* create_view, create_command_encoder, begin_render_pass ... draw: one
\* render pass recorded against the frame's view.
begin_render_pass(w, frame) ==
    [w EXCEPT !.log = Append(@, Entry("begin_render_pass", 0, 0, "-", frame))]

\* queue.submit(once(commands.finish()))
submit(w, frame) ==
    [w EXCEPT !.log = Append(@, Entry("submit", 0, 0, "-", frame))]

\* frame.present(): consumes the frame.
present(w, frame) ==
    [w EXCEPT !.surface.outstanding = @ \ { frame },
              !.log = Append(@, Entry("present", 0, 0, "-", frame))]

\* The handler returns; both draw and window_event return the unit value.
return(w) ==
    [w EXCEPT !.log = Append(@, Entry("return", 0, 0, "()", 0))]

----------------------------------------------------------------------------
(* camera.rs *)

RECURSIVE GCD(_, _)
GCD(a, b) == IF b = 0 THEN a ELSE GCD(b, a % b)

\* The quotient n / d of two non-negative numbers as f32 division gives it:
\* a fraction in lowest terms, <<1, 0>> for x / 0 (infinity) and <<0, 0>> for
\* 0 / 0 (NaN).
Ratio(n, d) ==
    IF n = 0 /\ d = 0 THEN <<0, 0>>
    ELSE <<n \div GCD(n, d), d \div GCD(n, d)>>

\* f32::to_radians: degrees * pi / 180, as a fraction of pi.
to_radians(degrees) == Ratio(degrees, 180)

\* pub const OPENGL_TO_WGPU_MATRIX, from_cols_array: the third column is
\* (0, 0, 0.5, 0.5) and the fourth (0, 0, 0, 1).
OPENGL_TO_WGPU_MATRIX == [ op |-> "OPENGL_TO_WGPU_MATRIX" ]

\* glam::Mat4::look_at_rh(eye, center, up)
look_at_rh(eye, center, up) ==
    [ op |-> "look_at_rh", eye |-> eye, center |-> center, up |-> up ]

\* glam::Mat4::perspective_rh(fov_y_radians, aspect_ratio, z_near, z_far)
perspective_rh(fov_y_radians, aspect_ratio, z_near, z_far) ==
    [ op |-> "perspective_rh", fov_y_radians |-> fov_y_radians,
      aspect_ratio |-> aspect_ratio, z_near |-> z_near, z_far |-> z_far ]

\* A product of matrices is kept as the sequence of its factors, leftmost
\* first.  What a factor does to the clip coordinates <<z, w>> of a point
\* (homogeneous: a common non-zero factor does not matter, so every row is
\* scaled to whole numbers):
\*   perspective_rh, depth range [0,1]:
\*       z' = r*z + r*z_near*w, w' = -z, with r = z_far / (z_near - z_far);
\*   OPENGL_TO_WGPU_MATRIX as written in camera.rs:
\*       z' = 0.5*z, w' = 0.5*z + w;
\*   look_at_rh maps world space to view space and is applied before.
ApplyFactor(m, zw) ==
    CASE m.op = "perspective_rh" ->
             << m.z_far * (zw[1] + m.z_near * zw[2]),
                (0 - zw[1]) * (m.z_near - m.z_far) >>
      [] m.op = "OPENGL_TO_WGPU_MATRIX" -> << zw[1], zw[1] + 2 * zw[2] >>
      [] OTHER -> zw

RECURSIVE ApplyFactors(_, _)
ApplyFactors(ms, zw) ==
    IF ms = << >> THEN zw
    ELSE ApplyFactor(Head(ms), ApplyFactors(Tail(ms), zw))

\* The clip coordinates <<z, w>> the matrix gives the point that lies dist in
\* front of the eye, which the view matrix puts at (0, 0, -dist, 1).
ClipZW(matrix, dist) == ApplyFactors(matrix, << 0 - dist, 1 >>)

\* A build that also multiplies by the depth-remap constant.
build_view_projection_matrix_remapped(c) ==
    LET view == look_at_rh(c.eye, c.center, c.up)
        proj == perspective_rh(to_radians(c.fovy), c.aspect_ratio, c.znear, c.zfar)
    IN  << OPENGL_TO_WGPU_MATRIX, proj, view >>

\* Camera::build_view_projection_matrix: proj * view.
build_view_projection_matrix(c) ==
    LET view == look_at_rh(c.eye, c.center, c.up)
        proj == perspective_rh(to_radians(c.fovy), c.aspect_ratio, c.znear, c.zfar)
    IN  << proj, view >>

\* struct CameraUniform
CameraUniform(matrix) == [ view_proj |-> matrix ]

\* Cameras a caller may hold (all fields are pub).  Lengths are in tenths of
\* a unit, fovy in degrees; the first is the camera of Renderer::initialize
\* on an 800x600 window.
Cameras ==
    [ eye          : { <<0, 10, 30>>, <<0, 0, 50>> },
      center       : { <<0, 0, 0>> },
      up           : { <<0, 10, 0>> },
      aspect_ratio : { <<4, 3>>, <<1, 1>>, <<16, 9>>, <<1, 2>> },
      fovy         : { 45, 60, 90 },
      znear        : { 1, 5 },
      zfar         : { 100, 1000 } ]

\* No renderer and no application: a camera alone.
CameraInit ==
    /\ camera \in Cameras
    /\ view_proj = << >>
    /\ renderer = << >>
    /\ surface = << >>
    /\ log = << >>
    /\ app = << >>
    /\ app_surface = << >>
    /\ app_log = << >>

\* camera.build_view_projection_matrix(), which takes &self.
BuildViewProjection ==
    /\ view_proj' = build_view_projection_matrix(camera)
    /\ UNCHANGED <<camera, renderer, surface, log, app, app_surface, app_log>>

CameraNext == BuildViewProjection

CameraSpec == CameraInit /\ [][CameraNext]_vars

----------------------------------------------------------------------------
(* renderer.rs *)

\* The first sRGB format, or else formats[0].
surface_format(formats) ==
    IF \E i \in DOMAIN formats : is_srgb(formats[i])
    THEN formats[CHOOSE i \in DOMAIN formats :
                    /\ is_srgb(formats[i])
                    /\ \A j \in DOMAIN formats : is_srgb(formats[j]) => i <= j]
    ELSE formats[1]

SurfaceConfiguration(window_size, formats) ==
    [ format       |-> surface_format(formats),
      width        |-> window_size[1],
      height       |-> window_size[2],
      present_mode |-> "AutoVsync",
      alpha_mode   |-> "alpha_modes[0]" ]

\* An initialization that builds the pipeline for the first format the
\* adapter lists instead of the format chosen for the surface.
initialize_first_format(window_size, formats) ==
    LET surface_config == SurfaceConfiguration(window_size, formats)
        cam == [ eye          |-> <<0, 10, 30>>,
                 center       |-> <<0, 0, 0>>,
                 up           |-> <<0, 10, 0>>,
                 aspect_ratio |-> Ratio(window_size[1], window_size[2]),
                 fovy         |-> 45,
                 znear        |-> 1,
                 zfar         |-> 1000 ]
        w0 == [ renderer |->
                  [ surface_config             |-> surface_config,
                    should_reconfigure_surface |-> FALSE,
                    device                     |-> "device",
                    render_pipeline            |->
                        [ color_target_format |-> formats[1],
                          topology            |-> "TriangleList",
                          cull_mode           |-> "None" ],
                    vertex_buffer              |-> "VERTICES",
                    index_buffer               |-> "INDICES",
                    camera                     |-> cam,
                    camera_uniform_buffer      |->
                        CameraUniform(build_view_projection_matrix(cam)) ],
                surface  |-> [ config      |-> surface_config,
                               acquired    |-> 0,
                               outstanding |-> {} ],
                log      |-> << >> ]
    IN  configure(w0, surface_config)

\* Renderer::initialize: the state it returns, the surface it configured.
\* Lengths of the camera (eye, up, znear, zfar) are in tenths of a unit.
initialize(window_size, formats) ==
    LET surface_config == SurfaceConfiguration(window_size, formats)
        cam == [ eye          |-> <<0, 10, 30>>,
                 center       |-> <<0, 0, 0>>,
                 up           |-> <<0, 10, 0>>,
                 aspect_ratio |-> Ratio(window_size[1], window_size[2]),
                 fovy         |-> 45,
                 znear        |-> 1,
                 zfar         |-> 1000 ]
        w0 == [ renderer |->
                  [ surface_config             |-> surface_config,
                    should_reconfigure_surface |-> FALSE,
                    device                     |-> "device",
                    render_pipeline            |->
                        [ color_target_format |-> surface_config.format,
                          topology            |-> "TriangleList",
                          cull_mode           |-> "None" ],
                    vertex_buffer              |-> "VERTICES",
                    index_buffer               |-> "INDICES",
                    camera                     |-> cam,
                    camera_uniform_buffer      |->
                        CameraUniform(build_view_projection_matrix(cam)) ],
                surface  |-> [ config      |-> surface_config,
                               acquired    |-> 0,
                               outstanding |-> {} ],
                log      |-> << >> ]
    IN  configure(w0, surface_config)

\* A resize that reconfigures the surface at once instead of deferring it.
resize_surface_eager(w, size) ==
    LET w1 == [w EXCEPT !.renderer.surface_config.width = size[1],
                        !.renderer.surface_config.height = size[2],
                        !.renderer.should_reconfigure_surface = TRUE]
    IN  configure(w1, w1.renderer.surface_config)

\* A resize that updates the camera's aspect ratio and leaves the uniform
\* buffer as it was.
resize_surface_camera_only(w, size) ==
    [w EXCEPT !.renderer.surface_config.width = size[1],
              !.renderer.surface_config.height = size[2],
              !.renderer.should_reconfigure_surface = TRUE,
              !.renderer.camera.aspect_ratio = Ratio(size[1], size[2])]

\* Renderer::resize_surface
resize_surface(w, size) ==
    [w EXCEPT !.renderer.surface_config.width = size[1],
              !.renderer.surface_config.height = size[2],
              !.renderer.should_reconfigure_surface = TRUE]

\* A draw that never reconfigures the surface.
draw_stale(w, outcome) ==
    LET w2 == get_current_texture(w, outcome)
        frame == w2.surface.acquired
    IN  IF outcome = "Ok"
        THEN return(present(submit(begin_render_pass(w2, frame), frame), frame))
        ELSE return(w2)

\* A draw that keeps asking for a frame while the surface fails.
draw_retrying(w, outcome) ==
    LET w1 == IF w.renderer.should_reconfigure_surface
              THEN configure(w, w.renderer.surface_config)
              ELSE w
        w2 == get_current_texture(w1, outcome)
        frame == w2.surface.acquired
    IN  IF outcome = "Ok"
        THEN return(present(submit(begin_render_pass(w2, frame), frame), frame))
        ELSE return(get_current_texture(get_current_texture(w2, outcome), outcome))

\* A draw that presents the frame before submitting the commands.
draw_present_first(w, outcome) ==
    LET w1 == IF w.renderer.should_reconfigure_surface
              THEN configure(w, w.renderer.surface_config)
              ELSE w
        w2 == get_current_texture(w1, outcome)
        frame == w2.surface.acquired
    IN  IF outcome = "Ok"
        THEN return(submit(present(begin_render_pass(w2, frame), frame), frame))
        ELSE return(w2)

\* A draw that drops the frame without presenting it (dropping a
\* SurfaceTexture discards it).
draw_no_present(w, outcome) ==
    LET w1 == IF w.renderer.should_reconfigure_surface
              THEN configure(w, w.renderer.surface_config)
              ELSE w
        w2 == get_current_texture(w1, outcome)
        frame == w2.surface.acquired
        w3 == submit(begin_render_pass(w2, frame), frame)
    IN  IF outcome = "Ok"
        THEN return([w3 EXCEPT !.surface.outstanding = @ \ { frame }])
        ELSE return(w2)

\* Renderer::draw; outcome is what get_current_texture returns.
draw(w, outcome) ==
    LET w1 == IF w.renderer.should_reconfigure_surface
              THEN configure(w, w.renderer.surface_config)
              ELSE w
        w2 == get_current_texture(w1, outcome)
        frame == w2.surface.acquired
    IN  IF outcome = "Ok"
        THEN return(present(submit(begin_render_pass(w2, frame), frame), frame))
        ELSE return(w2)

World == [renderer |-> renderer, surface |-> surface, log |-> log]

SetWorld(w) ==
    /\ renderer' = w.renderer
    /\ surface' = w.surface
    /\ log' = w.log

\* main.rs before the event loop starts: App::Init.
AppIdle ==
    [ state |-> "Init", renderer |-> << >>, exit |-> FALSE,
      redraw_requested |-> FALSE, panicked |-> FALSE ]

NoSurface == [ config |-> << >>, acquired |-> 0, outstanding |-> {} ]

Init ==
    /\ \E i \in DOMAIN WindowSizes, formats \in FormatLists :
          LET w == initialize(WindowSizes[i], formats)
          IN  /\ renderer = w.renderer
              /\ surface = w.surface
              /\ log = w.log
    /\ app = AppIdle
    /\ app_surface = NoSurface
    /\ app_log = << >>
    /\ camera = << >>
    /\ view_proj = << >>

ResizeSurface(size) ==
    /\ NumCalls(log) < MaxEvents
    /\ SetWorld(resize_surface(Call(World, "resize_surface", size), size))
    /\ UNCHANGED <<app, app_surface, app_log, camera, view_proj>>

Draw(outcome) ==
    /\ NumCalls(log) < MaxEvents
    /\ SetWorld(draw(Call(World, "draw", <<0, 0>>), outcome))
    /\ UNCHANGED <<app, app_surface, app_log, camera, view_proj>>

Next ==
    \/ \E i \in DOMAIN WindowSizes : ResizeSurface(WindowSizes[i])
    \/ \E outcome \in Outcomes : Draw(outcome)

Spec == Init /\ [][Next]_vars

----------------------------------------------------------------------------
(* main.rs *)

\* The Renderer struct of main.rs, as resumed builds it.
AppRenderer(surface_config) ==
    [ surface_config        |-> surface_config,
      should_resize_surface |-> FALSE,
      device                |-> "device",
      render_pipeline       |->
          [ color_target_format |-> surface_config.format,
            topology            |-> "TriangleList",
            cull_mode           |-> "Back" ] ]

\* event_loop.exit()
exit(w) ==
    [w EXCEPT !.app.exit = TRUE,
              !.log = Append(@, Entry("exit", 0, 0, "-", 0))]

\* window.request_redraw()
request_redraw(w) ==
    [w EXCEPT !.app.redraw_requested = TRUE,
              !.log = Append(@, Entry("request_redraw", 0, 0, "-", 0))]

\* instance.request_adapter(..): Option<Adapter>
request_adapter(w, gpu) ==
    [w EXCEPT !.log = Append(@, Entry("request_adapter", 0, 0,
                                      IF gpu = "NoAdapter" THEN "None" ELSE "Some", 0))]

\* adapter.request_device(..): Result<(Device, Queue), RequestDeviceError>
request_device(w, gpu) ==
    [w EXCEPT !.log = Append(@, Entry("request_device", 0, 0,
                                      IF gpu = "NoDevice" THEN "Err" ELSE "Ok", 0))]

\* .unwrap() on None or Err: the panic leaves the handler and run_app; *self
\* was not assigned, and no further event is delivered.
panic(w) ==
    [w EXCEPT !.app.panicked = TRUE,
              !.log = Append(@, Entry("panic", 0, 0, "-", 0))]

\* A resumed that goes on to App::Main whatever the adapter and device
\* requests return.
resumed_ignoring_failure(w, window_size, formats, gpu) ==
    IF w.app.state # "Init"
    THEN w
    ELSE LET surface_config == SurfaceConfiguration(window_size, formats)
             w1 == [request_device(request_adapter(w, gpu), gpu)
                        EXCEPT !.surface = [ config      |-> surface_config,
                                             acquired    |-> 0,
                                             outstanding |-> {} ]]
             w2 == configure(w1, surface_config)
         IN  [w2 EXCEPT !.app.state = "Main",
                        !.app.renderer = << AppRenderer(surface_config) >>]

\* A resumed without the `let App::Init = self else { return }` guard.
resumed_unguarded(w, window_size, formats, gpu) ==
    LET wa == request_adapter(w, gpu)
    IN  IF gpu = "NoAdapter"
        THEN panic(wa)
        ELSE LET surface_config == SurfaceConfiguration(window_size, formats)
                 wd == request_device(wa, gpu)
             IN  IF gpu = "NoDevice"
                 THEN panic(wd)
                 ELSE LET w1 == [wd EXCEPT !.surface =
                                     [ config      |-> surface_config,
                                       acquired    |-> 0,
                                       outstanding |-> {} ]]
                          w2 == configure(w1, surface_config)
                      IN  [w2 EXCEPT !.app.state = "Main",
                                     !.app.renderer = << AppRenderer(surface_config) >>]

\* App::resumed: only App::Init creates the window, the surface, the adapter,
\* the device and the pipeline, configures the surface and becomes App::Main.
\* The adapter and the device are unwrapped: without them resumed panics
\* before the surface is configured.
resumed(w, window_size, formats, gpu) ==
    IF w.app.state # "Init"
    THEN w
    ELSE LET wa == request_adapter(w, gpu)
         IN  IF gpu = "NoAdapter"
             THEN panic(wa)
             ELSE LET surface_config == SurfaceConfiguration(window_size, formats)
                      wd == request_device(wa, gpu)
                  IN  IF gpu = "NoDevice"
                      THEN panic(wd)
                      ELSE LET w1 == [wd EXCEPT !.surface =
                                          [ config      |-> surface_config,
                                            acquired    |-> 0,
                                            outstanding |-> {} ]]
                               w2 == configure(w1, surface_config)
                           IN  [w2 EXCEPT !.app.state = "Main",
                                          !.app.renderer = << AppRenderer(surface_config) >>]

\* App::window_event, WindowEvent::CloseRequested
window_event_CloseRequested(w) == exit(w)

\* App::window_event, WindowEvent::Resized(size)
window_event_Resized(w, size) ==
    IF w.app.state # "Main"
    THEN w
    ELSE [w EXCEPT !.app.renderer[1].surface_config.width = size[1],
                   !.app.renderer[1].surface_config.height = size[2],
                   !.app.renderer[1].should_resize_surface = TRUE]

\* A redraw handler that ends the event loop on any acquisition failure.
window_event_RedrawRequested_fatal(w, outcome) ==
    IF w.app.state # "Main"
    THEN return(w)
    ELSE LET r == w.app.renderer[1]
             w1 == IF r.should_resize_surface
                   THEN configure(w, r.surface_config)
                   ELSE w
             w2 == get_current_texture(w1, outcome)
             frame == w2.surface.acquired
         IN  IF outcome = "Ok"
             THEN return(present(submit(begin_render_pass(w2, frame), frame), frame))
             ELSE return(exit(w2))

\* A redraw handler that clears should_resize_surface once it has
\* reconfigured the surface.
window_event_RedrawRequested_clearing(w, outcome) ==
    IF w.app.state # "Main"
    THEN return(w)
    ELSE LET r == w.app.renderer[1]
             w1 == IF r.should_resize_surface
                   THEN [configure(w, r.surface_config)
                            EXCEPT !.app.renderer[1].should_resize_surface = FALSE]
                   ELSE w
             w2 == get_current_texture(w1, outcome)
             frame == w2.surface.acquired
         IN  IF outcome = "Ok"
             THEN return(present(submit(begin_render_pass(w2, frame), frame), frame))
             ELSE return(w2)

\* A redraw handler that acquires the frame first and applies a pending
\* resize afterwards.
window_event_RedrawRequested_configure_late(w, outcome) ==
    IF w.app.state # "Main"
    THEN return(w)
    ELSE LET r == w.app.renderer[1]
             w1 == get_current_texture(w, outcome)
             frame == w1.surface.acquired
             w2 == IF r.should_resize_surface
                   THEN configure(w1, r.surface_config)
                   ELSE w1
         IN  IF outcome = "Ok"
             THEN return(present(submit(begin_render_pass(w2, frame), frame), frame))
             ELSE return(w2)

\* App::window_event, WindowEvent::RedrawRequested; outcome is what
\* get_current_texture returns.
window_event_RedrawRequested(w, outcome) ==
    IF w.app.state # "Main"
    THEN return(w)
    ELSE LET r == w.app.renderer[1]
             w1 == IF r.should_resize_surface
                   THEN configure(w, r.surface_config)
                   ELSE w
             w2 == get_current_texture(w1, outcome)
             frame == w2.surface.acquired
         IN  IF outcome = "Ok"
             THEN return(present(submit(begin_render_pass(w2, frame), frame), frame))
             ELSE return(w2)

\* An about_to_wait that asks for nothing.
about_to_wait_idle(w) == w

\* App::about_to_wait
about_to_wait(w) ==
    IF w.app.state # "Main"
    THEN w
    ELSE request_redraw(w)

AppWorld == [app |-> app, surface |-> app_surface, log |-> app_log]

SetAppWorld(w) ==
    /\ app' = w.app
    /\ app_surface' = w.surface
    /\ app_log' = w.log

\* renderer.rs is not part of the binary main.rs builds: no Renderer of
\* renderer.rs exists while App runs.
AppInit ==
    /\ renderer = << >>
    /\ surface = NoSurface
    /\ log = << >>
    /\ app = AppIdle
    /\ app_surface = NoSurface
    /\ app_log = << >>
    /\ camera = << >>
    /\ view_proj = << >>

\* The event loop delivers events until exit() was called or a handler
\* panicked.
Running == ~app.exit /\ ~app.panicked /\ NumCalls(app_log) < MaxEvents

Resumed(window_size, formats, gpu) ==
    /\ Running
    /\ SetAppWorld(resumed(Call(AppWorld, "resumed", <<0, 0>>), window_size, formats, gpu))
    /\ UNCHANGED <<renderer, surface, log, camera, view_proj>>

CloseRequested ==
    /\ Running
    /\ SetAppWorld(window_event_CloseRequested(Call(AppWorld, "CloseRequested", <<0, 0>>)))
    /\ UNCHANGED <<renderer, surface, log, camera, view_proj>>

Resized(size) ==
    /\ Running
    /\ SetAppWorld(window_event_Resized(Call(AppWorld, "Resized", size), size))
    /\ UNCHANGED <<renderer, surface, log, camera, view_proj>>

\* Delivering RedrawRequested consumes the pending request, if any.
RedrawRequested(outcome) ==
    /\ Running
    /\ LET w == Call([AppWorld EXCEPT !.app.redraw_requested = FALSE],
                     "RedrawRequested", <<0, 0>>)
       IN  SetAppWorld(window_event_RedrawRequested(w, outcome))
    /\ UNCHANGED <<renderer, surface, log, camera, view_proj>>

AboutToWait ==
    /\ Running
    /\ SetAppWorld(about_to_wait(Call(AppWorld, "about_to_wait", <<0, 0>>)))
    /\ UNCHANGED <<renderer, surface, log, camera, view_proj>>

AppNext ==
    \/ \E i \in DOMAIN WindowSizes, formats \in FormatLists, gpu \in GpuOutcomes :
          Resumed(WindowSizes[i], formats, gpu)
    \/ CloseRequested
    \/ \E i \in DOMAIN WindowSizes : Resized(WindowSizes[i])
    \/ \E outcome \in Outcomes : RedrawRequested(outcome)
    \/ AboutToWait

AppSpec == AppInit /\ [][AppNext]_vars

----------------------------------------------------------------------------
(* Reading a log: draw cycles and resize bursts *)

Min(S) == CHOOSE x \in S : \A y \in S : x <= y
Max(S) == CHOOSE x \in S : \A y \in S : x >= y

\* The entries that open a draw cycle.
DrawStarts(l) == { i \in DOMAIN l : l[i].op \in { "draw", "RedrawRequested" } }

\* The last entry of the call opened at i.
CycleEnd(l, i) ==
    LET later == { j \in DOMAIN l : j > i /\ l[j].op \in CallOps }
    IN  IF later = {} THEN Len(l) ELSE Min(later) - 1

\* The calls made inside the call opened at i.
Cycle(l, i) == (i + 1) .. CycleEnd(l, i)

OpsIn(l, S, op) == { j \in S : l[j].op = op }

\* The acquisition attempts of the cycle opened at d, and the first of them.
Acquires(l, d) == OpsIn(l, Cycle(l, d), "get_current_texture")

FirstAcquireIs(l, d, results) ==
    /\ Acquires(l, d) # {}
    /\ l[Min(Acquires(l, d))].res \in results

\* The call markers before index i.
CallsBefore(l, i) == { k \in DOMAIN l : k < i /\ l[k].op \in CallOps }

\* The resize calls r such that only resize calls lie between r and the
\* draw opened at d: the burst of resizes the draw follows.
Burst(l, d) ==
    { r \in CallsBefore(l, d) :
        \A k \in CallsBefore(l, d) : k >= r => l[k].op = "resize_surface" }

Positive(e) == e.w > 0 /\ e.h > 0

----------------------------------------------------------------------------
(* main.rs: the event loop running for ever *)

\* The event loop without a bound on the number of events.  Only the last
\* handler call is remembered when the next one starts, and frames are
\* numbered from that point, so that the loop can run for ever.
Recent(l) ==
    IF CallsBefore(l, Len(l) + 1) = {}
    THEN << >>
    ELSE SubSeq(l, Max(CallsBefore(l, Len(l) + 1)), Len(l))

Forget(w) == [w EXCEPT !.log = Recent(@), !.surface.acquired = 0]

LiveRunning == ~app.exit /\ ~app.panicked

LiveResumed(window_size, formats, gpu) ==
    /\ LiveRunning
    /\ SetAppWorld(resumed(Call(Forget(AppWorld), "resumed", <<0, 0>>),
                           window_size, formats, gpu))
    /\ UNCHANGED <<renderer, surface, log, camera, view_proj>>

LiveCloseRequested ==
    /\ LiveRunning
    /\ SetAppWorld(window_event_CloseRequested(
                       Call(Forget(AppWorld), "CloseRequested", <<0, 0>>)))
    /\ UNCHANGED <<renderer, surface, log, camera, view_proj>>

LiveResized(size) ==
    /\ LiveRunning
    /\ SetAppWorld(window_event_Resized(Call(Forget(AppWorld), "Resized", size), size))
    /\ UNCHANGED <<renderer, surface, log, camera, view_proj>>

LiveRedrawRequested(outcome) ==
    /\ LiveRunning
    /\ LET w == Call([Forget(AppWorld) EXCEPT !.app.redraw_requested = FALSE],
                     "RedrawRequested", <<0, 0>>)
       IN  SetAppWorld(window_event_RedrawRequested(w, outcome))
    /\ UNCHANGED <<renderer, surface, log, camera, view_proj>>

LiveAboutToWait ==
    /\ LiveRunning
    /\ SetAppWorld(about_to_wait(Call(Forget(AppWorld), "about_to_wait", <<0, 0>>)))
    /\ UNCHANGED <<renderer, surface, log, camera, view_proj>>

\* The event loop delivers a RedrawRequested for a pending request_redraw.
DeliverRequestedRedraw ==
    /\ app.redraw_requested
    /\ \E outcome \in Outcomes : LiveRedrawRequested(outcome)

AppLiveNext ==
    \/ \E i \in DOMAIN WindowSizes, formats \in FormatLists, gpu \in GpuOutcomes :
          LiveResumed(WindowSizes[i], formats, gpu)
    \/ LiveCloseRequested
    \/ \E i \in DOMAIN WindowSizes : LiveResized(WindowSizes[i])
    \/ \E outcome \in Outcomes : LiveRedrawRequested(outcome)
    \/ LiveAboutToWait

\* run_app calls about_to_wait at the end of every iteration of the loop and
\* delivers RedrawRequested to a window whose redraw was requested.
AppLiveSpec ==
    /\ AppInit
    /\ [][AppLiveNext]_vars
    /\ WF_vars(LiveAboutToWait)
    /\ WF_vars(DeliverRequestedRedraw)

----------------------------------------------------------------------------
(* main.rs and renderer.rs side by side *)

\* The Renderer of renderer.rs and the App of main.rs, both initialized on
\* the same window with the same surface capabilities, are given the same
\* resize and redraw events and the same acquisition outcomes.
PairInit ==
    /\ \E i \in DOMAIN WindowSizes, formats \in FormatLists :
          LET w == initialize(WindowSizes[i], formats)
              a == resumed(Call([app |-> AppIdle, surface |-> NoSurface, log |-> << >>],
                                "resumed", <<0, 0>>),
                           WindowSizes[i], formats, "Ok")
          IN  /\ renderer = w.renderer
              /\ surface = w.surface
              /\ log = w.log
              /\ app = a.app
              /\ app_surface = a.surface
              /\ app_log = a.log
    /\ camera = << >>
    /\ view_proj = << >>

\* WindowEvent::Resized(size) on one side, resize_surface(size) on the other.
PairResized(size) ==
    /\ NumCalls(log) < MaxEvents
    /\ SetWorld(resize_surface(Call(World, "resize_surface", size), size))
    /\ SetAppWorld(window_event_Resized(Call(AppWorld, "Resized", size), size))
    /\ UNCHANGED <<camera, view_proj>>

\* WindowEvent::RedrawRequested on one side, draw() on the other; the surface
\* answers both acquisitions alike.
PairRedrawRequested(outcome) ==
    /\ NumCalls(log) < MaxEvents
    /\ SetWorld(draw(Call(World, "draw", <<0, 0>>), outcome))
    /\ LET w == Call([AppWorld EXCEPT !.app.redraw_requested = FALSE],
                     "RedrawRequested", <<0, 0>>)
       IN  SetAppWorld(window_event_RedrawRequested(w, outcome))
    /\ UNCHANGED <<camera, view_proj>>

PairNext ==
    \/ \E i \in DOMAIN WindowSizes : PairResized(WindowSizes[i])
    \/ \E outcome \in Outcomes : PairRedrawRequested(outcome)

PairSpec == PairInit /\ [][PairNext]_vars

\* The surface operations of a log, in order.
SurfaceOps == { "configure", "get_current_texture", "submit", "present" }
IsSurfaceOp(e) == e.op \in SurfaceOps
SurfaceTrace(l) == SelectSeq(l, IsSurfaceOp)

----------------------------------------------------------------------------
(* Claims *)

\* C1: when the last resize before a successful frame acquisition carried a
\* size (w,h) with w,h > 0, the surface was configured with (w,h) after that
\* resize and before the acquisition, no other configuration was put in force
\* in between, and the acquired frame has that size.
C1_LastResizeInForceAtAcquire ==
    \A j \in DOMAIN log :
        (log[j].op = "get_current_texture" /\ log[j].res = "Ok") =>
            LET resizes == { i \in 1 .. (j - 1) : log[i].op = "resize_surface" }
                configs == { c \in 1 .. (j - 1) : log[c].op = "configure" }
            IN  (resizes # {} /\ Positive(log[Max(resizes)])) =>
                    /\ configs # {}
                    /\ Max(configs) > Max(resizes)
                    /\ log[Max(configs)].w = log[Max(resizes)].w
                    /\ log[Max(configs)].h = log[Max(resizes)].h
                    /\ log[j].w = log[Max(resizes)].w
                    /\ log[j].h = log[Max(resizes)].h

\* Two resizes with different positive sizes, then a draw that acquired a
\* frame of the second size.
C1_Witness ==
    \E i1, i2, j \in DOMAIN log :
        /\ i1 < i2 /\ i2 < j
        /\ log[i1].op = "resize_surface" /\ Positive(log[i1])
        /\ log[i2].op = "resize_surface" /\ Positive(log[i2])
        /\ log[i1].w # log[i2].w
        /\ \A k \in (i2 + 1) .. (j - 1) : log[k].op # "resize_surface"
        /\ log[j].op = "get_current_texture" /\ log[j].res = "Ok"
        /\ log[j].w = log[i2].w /\ log[j].h = log[i2].h

\* What a step that enters resize_surface(size) may do.
C2_ResizeStep ==
    (Len(log') > Len(log) /\ log'[Len(log) + 1].op = "resize_surface") =>
        LET m == log'[Len(log) + 1]
        IN  /\ log' = Append(log, m)
            /\ surface' = surface
            /\ renderer' = [renderer EXCEPT !.surface_config.width = m.w,
                                            !.surface_config.height = m.h,
                                            !.should_reconfigure_surface = TRUE]

\* C2: a step that enters resize_surface(size) makes no call on the surface or
\* the queue (no configure, acquisition, submit or present), leaves the
\* surface as it was, and changes of the Renderer only surface_config.width,
\* surface_config.height (to size) and should_reconfigure_surface (to true):
\* format, present mode, alpha mode, pipeline, buffers and device stay.
C2_ResizeIsPureStateUpdate == [][C2_ResizeStep]_vars

\* A resize was the last call: the new size is recorded, the flag is set, and
\* the surface still has the previous configuration.
C2_Witness ==
    /\ log # << >>
    /\ log[Len(log)].op = "resize_surface"
    /\ renderer.should_reconfigure_surface
    /\ renderer.surface_config.width = log[Len(log)].w
    /\ surface.config.width # renderer.surface_config.width

\* C3: a draw that follows a burst of n >= 1 resizes and acquires its frame at
\* the first attempt sees exactly one configure between the first resize of
\* the burst and the end of the draw.
C3_OneReconfigurePerBurst ==
    \A d \in DrawStarts(log) :
        LET burst == Burst(log, d)
        IN  (burst # {} /\ FirstAcquireIs(log, d, { "Ok" })) =>
                Cardinality(OpsIn(log, Min(burst) .. CycleEnd(log, d), "configure")) = 1

\* A burst of three resizes, then a draw that acquired at the first attempt.
C3_Witness ==
    \E d \in DrawStarts(log) :
        /\ Cardinality(Burst(log, d)) = 3
        /\ FirstAcquireIs(log, d, { "Ok" })
        /\ Cardinality(OpsIn(log, Cycle(log, d), "configure")) = 1

\* C4: when a draw has returned should_reconfigure_surface is false, and a
\* draw that directly follows another draw (no resize in between) and whose
\* acquisition is not Outdated or Lost makes no configure call.
C4_FlagClearedByDraw ==
    /\ (log # << >> /\ log[Len(log)].op = "return") =>
            ~renderer.should_reconfigure_surface
    /\ \A d \in DrawStarts(log) :
          ( /\ CallsBefore(log, d) # {}
            /\ log[Max(CallsBefore(log, d))].op = "draw"
            /\ ~FirstAcquireIs(log, d, { "Outdated", "Lost" }) ) =>
                OpsIn(log, Cycle(log, d), "configure") = {}

\* C5: a draw cycle whose frame acquisition fails with OutOfMemory ends the
\* render loop or hands a fatal error to its caller (something a cycle skipped
\* on Timeout does not do), and no frame acquisition is attempted after it.
C5_OutOfMemoryIsFatal ==
    \A d \in DrawStarts(app_log) :
        FirstAcquireIs(app_log, d, { "OutOfMemory" }) =>
            /\ \E k \in Cycle(app_log, d) :
                  \/ app_log[k].op = "exit"
                  \/ app_log[k].op = "return" /\ app_log[k].res # "()"
            /\ \A k \in DOMAIN app_log :
                  k > CycleEnd(app_log, d) => app_log[k].op # "get_current_texture"

\* C6: a draw cycle whose first frame acquisition fails with Outdated or Lost
\* configures the surface after that failure and attempts the acquisition a
\* second time; when the second attempt returns a frame, the frame is
\* submitted and presented.
C6_OutdatedLostReconfigureAndRetry ==
    \A d \in DrawStarts(log) :
        FirstAcquireIs(log, d, { "Outdated", "Lost" }) =>
            LET first == Min(Acquires(log, d))
            IN  /\ \E c \in OpsIn(log, Cycle(log, d), "configure") : c > first
                /\ Cardinality(Acquires(log, d)) = 2
                /\ \A a \in Acquires(log, d) :
                      log[a].res = "Ok" =>
                          \E s \in OpsIn(log, Cycle(log, d), "submit"),
                             p \in OpsIn(log, Cycle(log, d), "present") :
                              a < s /\ s < p

\* The calls a failed cycle must not make.
FrameOps == { "begin_render_pass", "submit", "present" }

\* C7: every draw cycle makes at most two frame acquisition attempts and ends
\* by returning normally to its caller, whatever the acquisition returns; a
\* cycle in which no attempt returned a frame records, submits and presents
\* nothing.
C7_AtMostOneRetryThenSkip ==
    \A d \in DrawStarts(log) :
        LET end == CycleEnd(log, d)
            acquires == OpsIn(log, (d + 1) .. end, "get_current_texture")
        IN  /\ Cardinality(acquires) <= 2
            /\ log[end].op = "return"
            /\ log[end].res = "()"
            /\ (\A a \in acquires : log[a].res # "Ok") =>
                  \A k \in (d + 1) .. end : log[k].op \notin FrameOps

\* The surface fails twice in a row with Outdated: both cycles are skipped,
\* and the draw after them still runs and presents.
C7_Witness ==
    \E d1, d2, d3 \in DrawStarts(log) :
        /\ d1 < d2 /\ d2 < d3
        /\ FirstAcquireIs(log, d1, { "Outdated" })
        /\ FirstAcquireIs(log, d2, { "Outdated" })
        /\ \A k \in d1 .. (d3 - 1) : log[k].op \notin FrameOps
        /\ log[CycleEnd(log, d2)].op = "return"
        /\ OpsIn(log, Cycle(log, d3), "present") # {}

\* C8: a redraw whose frame acquisition fails with Timeout makes that one
\* attempt only, records, submits and presents nothing, does not end the event
\* loop and returns the unit value; every redraw delivered after it attempts
\* a frame acquisition again.
C8_TimeoutSkipsFrame ==
    \A d \in DrawStarts(app_log) :
        FirstAcquireIs(app_log, d, { "Timeout" }) =>
            /\ Cardinality(Acquires(app_log, d)) = 1
            /\ \A k \in Cycle(app_log, d) : app_log[k].op \notin FrameOps \cup { "exit" }
            /\ \A k \in Cycle(app_log, d) :
                  app_log[k].op = "configure" => k < Min(Acquires(app_log, d))
            /\ app_log[CycleEnd(app_log, d)].op = "return"
            /\ app_log[CycleEnd(app_log, d)].res = "()"
            /\ \A d2 \in DrawStarts(app_log) : d2 > d => Acquires(app_log, d2) # {}

\* A redraw timed out, and the redraw delivered next acquired a frame and
\* presented it.
C8_Witness ==
    \E d, d2 \in DrawStarts(app_log) :
        /\ d < d2
        /\ FirstAcquireIs(app_log, d, { "Timeout" })
        /\ \A k \in Cycle(app_log, d) : app_log[k].op \notin FrameOps
        /\ \A k \in (d + 1) .. (d2 - 1) : app_log[k].op \notin CallOps
        /\ FirstAcquireIs(app_log, d2, { "Ok" })
        /\ OpsIn(app_log, Cycle(app_log, d2), "present") # {}
        /\ ~app.exit

\* The place of each call in a draw cycle.
Rank(op) ==
    CASE op = "configure"           -> 1
      [] op = "get_current_texture" -> 2
      [] op = "begin_render_pass"   -> 3
      [] op = "submit"              -> 4
      [] op = "present"             -> 5
      [] op = "return"              -> 6
      [] OTHER                      -> 0

\* C9: the calls of a draw cycle are made in the order configure,
\* get_current_texture, begin_render_pass, submit, present, each at most once;
\* a submit is made only after a frame was acquired in the same cycle, on that
\* frame's render pass; a cycle that acquired no frame submits and presents
\* nothing.
C9_CycleOrder ==
    \A d \in DrawStarts(log) :
        LET cycle == Cycle(log, d)
            acquires == OpsIn(log, cycle, "get_current_texture")
        IN  /\ \A i, j \in cycle :
                  i < j => (Rank(log[i].op) > 0 /\ Rank(log[i].op) < Rank(log[j].op))
            /\ \A s \in OpsIn(log, cycle, "submit") :
                  \E a \in acquires, r \in OpsIn(log, cycle, "begin_render_pass") :
                      /\ a < r /\ r < s
                      /\ log[a].res = "Ok"
                      /\ log[a].frame = log[s].frame
                      /\ log[r].frame = log[s].frame
            /\ (\A a \in acquires : log[a].res # "Ok") =>
                  /\ OpsIn(log, cycle, "submit") = {}
                  /\ OpsIn(log, cycle, "present") = {}

\* A cycle that made all five calls, and a cycle that failed after its
\* configure and made no further call.
C9_Witness ==
    \E d1, d2 \in DrawStarts(log) :
        /\ \A op \in { "configure", "get_current_texture", "begin_render_pass",
                       "submit", "present" } : OpsIn(log, Cycle(log, d1), op) # {}
        /\ OpsIn(log, Cycle(log, d2), "configure") # {}
        /\ FirstAcquireIs(log, d2, Outcomes \ { "Ok" })
        /\ OpsIn(log, Cycle(log, d2), "submit") = {}

\* C10: every acquired frame is presented exactly once, in the draw cycle that
\* acquired it and after that cycle's submit of it; only acquired frames are
\* presented; no frame is outstanding when a draw has returned.
C10_FrameConsumedOnce ==
    /\ \A a \in DOMAIN log :
          (log[a].op = "get_current_texture" /\ log[a].res = "Ok") =>
              LET d == Max({ i \in DrawStarts(log) : i < a })
                  presents == { k \in DOMAIN log :
                                  log[k].op = "present" /\ log[k].frame = log[a].frame }
              IN  /\ Cardinality(presents) = 1
                  /\ \A k \in presents :
                        /\ k \in Cycle(log, d)
                        /\ \E s \in Cycle(log, d) :
                              /\ a < s /\ s < k
                              /\ log[s].op = "submit"
                              /\ log[s].frame = log[a].frame
    /\ \A k \in DOMAIN log :
          log[k].op = "present" =>
              \E a \in 1 .. (k - 1) :
                  /\ log[a].op = "get_current_texture"
                  /\ log[a].res = "Ok"
                  /\ log[a].frame = log[k].frame
    /\ surface.outstanding = {}

\* Two draws acquired two different frames, and each was presented.
C10_Witness ==
    \E p1, p2 \in DOMAIN log :
        /\ log[p1].op = "present" /\ log[p2].op = "present"
        /\ log[p1].frame # log[p2].frame
        /\ surface.acquired >= 2
        /\ surface.outstanding = {}

\* C11: the recorded surface configuration always has width > 0 and
\* height > 0, and every configure call, the one of the initialization
\* included, is made with a non-zero width and height.
C11_SizeAlwaysPositive ==
    /\ renderer.surface_config.width > 0
    /\ renderer.surface_config.height > 0
    /\ \A c \in DOMAIN log : log[c].op = "configure" => Positive(log[c])

\* The last call was a draw, and it recorded a render pass: the pass read the
\* Renderer as it is in this state, since draw takes &self.
RenderPassJustRecorded ==
    /\ CallsBefore(log, Len(log) + 1) # {}
    /\ LET d == Max(CallsBefore(log, Len(log) + 1))
       IN  /\ log[d].op = "draw"
           /\ OpsIn(log, Cycle(log, d), "begin_render_pass") # {}

\* The resize calls made so far.
Resizes == { i \in DOMAIN log : log[i].op = "resize_surface" }

\* C12: when a draw records its render pass after a resize to (w,h), w,h > 0,
\* the camera's aspect_ratio is w/h and the uniform buffer holds the matrix
\* computed from it.
C12_AspectFollowsResize ==
    (RenderPassJustRecorded /\ Resizes # {}) =>
        LET last == log[Max(Resizes)]
        IN  Positive(last) =>
                /\ renderer.camera.aspect_ratio = Ratio(last.w, last.h)
                /\ renderer.camera_uniform_buffer.view_proj =
                       build_view_projection_matrix(
                           [renderer.camera EXCEPT !.aspect_ratio = Ratio(last.w, last.h)])

C17_PipelineFormatIsSurfaceFormat ==
    /\ renderer.render_pipeline.color_target_format = renderer.surface_config.format
    /\ renderer.render_pipeline.color_target_format = surface.config.format

\* A resize and a draw with a reconfiguration happened, on an sRGB surface.
C17_Witness ==
    /\ Resizes # {}
    /\ RenderPassJustRecorded
    /\ Cardinality(OpsIn(log, DOMAIN log, "configure")) >= 2
    /\ renderer.render_pipeline.color_target_format = "Bgra8UnormSrgb"
    /\ surface.config.format = "Bgra8UnormSrgb"

\* The factors of a product that are the depth-remap constant.
Remaps(matrix) == { i \in DOMAIN matrix : matrix[i] = OPENGL_TO_WGPU_MATRIX }

\* Depth 0 and depth 1 in clip coordinates <<z, w>>.
DepthIsZero(zw) == zw[1] = 0 /\ zw[2] # 0
DepthIsOne(zw) == zw[1] = zw[2] /\ zw[2] # 0

\* C14 as claimed: the returned matrix is DepthRemap x Proj x View, with the
\* depth-remap constant composed exactly once, the field of view in radians,
\* and gives a point on the near plane depth 0 and one on the far plane
\* depth 1.
C14_RemapComposedOnce ==
    view_proj # << >> =>
        /\ Cardinality(Remaps(view_proj)) = 1
        /\ Len(view_proj) = 3
        /\ view_proj[1] = OPENGL_TO_WGPU_MATRIX
        /\ view_proj[2].op = "perspective_rh"
        /\ view_proj[3].op = "look_at_rh"
        /\ DepthIsZero(ClipZW(view_proj, camera.znear))
        /\ DepthIsOne(ClipZW(view_proj, camera.zfar))

\* C14, amended: the returned matrix is Proj x View, Proj being glam's
\* perspective_rh (depth range [0,1]) of the field of view in radians, the
\* aspect ratio and the clip planes, View being look_at_rh of eye, center and
\* up; the depth-remap constant is not a factor; a point on the near plane
\* gets depth 0 and a point on the far plane depth 1.
C14_ProjTimesViewDepthZeroToOne ==
    view_proj # << >> =>
        /\ Remaps(view_proj) = {}
        /\ Len(view_proj) = 2
        /\ view_proj[1].op = "perspective_rh"
        /\ view_proj[1].fov_y_radians = Ratio(camera.fovy, 180)
        /\ view_proj[1].aspect_ratio = camera.aspect_ratio
        /\ view_proj[1].z_near = camera.znear
        /\ view_proj[1].z_far = camera.zfar
        /\ view_proj[2].op = "look_at_rh"
        /\ view_proj[2].eye = camera.eye
        /\ view_proj[2].center = camera.center
        /\ view_proj[2].up = camera.up
        /\ DepthIsZero(ClipZW(view_proj, camera.znear))
        /\ DepthIsOne(ClipZW(view_proj, camera.zfar))

\* The matrix of the camera of Renderer::initialize was built: 45 degrees are
\* pi/4, and the far plane, 100 units away, has clip z equal to clip w.
C14_Witness ==
    /\ view_proj # << >>
    /\ camera.fovy = 45 /\ camera.znear = 1 /\ camera.zfar = 1000
    /\ camera.aspect_ratio = <<4, 3>>
    /\ view_proj[1].fov_y_radians = <<1, 4>>
    /\ ClipZW(view_proj, 1000)[1] = ClipZW(view_proj, 1000)[2]
    /\ ClipZW(view_proj, 1)[1] = 0

AppOps(op) == OpsIn(app_log, DOMAIN app_log, op)

\* C15: when no adapter or no device is available, resumed ends in a fatal
\* error: the application is not App::Main then, the failure is the last
\* thing that happens, and no surface was configured and no frame acquired,
\* recorded, submitted or presented.
C15_NoGpuIsFatal ==
    /\ \A i \in DOMAIN app_log :
          (\/ app_log[i].op = "request_adapter" /\ app_log[i].res = "None"
           \/ app_log[i].op = "request_device" /\ app_log[i].res = "Err")
              => /\ i < Len(app_log)
                 /\ app_log[i + 1].op = "panic"
    /\ AppOps("panic") # {} =>
          /\ app.state # "Main"
          /\ app.renderer = << >>
          /\ app_log[Len(app_log)].op = "panic"
          /\ \A op \in FrameOps \cup {"configure", "get_current_texture"} : AppOps(op) = {}

\* The adapter was found but request_device failed, and the loop stopped in
\* App::Init.
C15_Witness ==
    /\ AppOps("panic") # {}
    /\ \E i \in AppOps("request_device") : app_log[i].res = "Err"
    /\ \E i \in AppOps("request_adapter") : app_log[i].res = "Some"
    /\ app.state = "Init"
    /\ ~Running

\* The handler the event loop runs in this step.
Handling(op) ==
    /\ Len(app_log') > Len(app_log)
    /\ app_log'[Len(app_log) + 1].op = op

\* C20: while the application is App::Init, a resize or redraw event changes
\* nothing; a resumed that finds its GPU moves App::Init to App::Main, with a
\* renderer and a configured surface; a resumed in App::Main changes nothing;
\* App::Main never goes back to App::Init.
C20_InitMainTransitions ==
    [][ /\ (app.state = "Init" /\ (Handling("Resized") \/ Handling("RedrawRequested")))
            => /\ app' = app
               /\ app_surface' = app_surface
        /\ (app.state = "Init" /\ Handling("resumed") /\ ~app'.panicked)
            => /\ app'.state = "Main"
               /\ app'.renderer # << >>
               /\ app_surface'.config = app'.renderer[1].surface_config
        /\ (app.state = "Main" /\ Handling("resumed"))
            => /\ app' = app
               /\ app_surface' = app_surface
               /\ app_log' = Append(app_log, app_log'[Len(app_log')])
        /\ app.state = "Main" => app'.state = "Main"
      ]_vars

\* A resize arrived in App::Init, then resumed ran twice: the application is
\* App::Main and its surface was configured once.
C20_Witness ==
    /\ Len(app_log) > 0
    /\ app_log[1].op \in {"Resized", "RedrawRequested"}
    /\ Cardinality(AppOps("resumed")) >= 2
    /\ Cardinality(AppOps("configure")) = 1
    /\ app.state = "Main"

\* The frames acquired before index i of the application's log and not
\* presented before it.
HeldAt(i) ==
    { app_log[j].frame : j \in { j \in AppOps("get_current_texture") :
          /\ j < i
          /\ app_log[j].res = "Ok"
          /\ \A k \in AppOps("present") :
                ~(j < k /\ k < i /\ app_log[k].frame = app_log[j].frame) } }

\* The handler call inside which index i of the application's log lies.
CallOf(i) == Max(CallsBefore(app_log, i))

\* C19: the surface is configured exactly once at startup, after the device
\* was created and before any frame acquisition; configure is never called
\* while an acquired frame is not yet presented; every configure call is made
\* either by the initialization or inside a draw cycle before that cycle
\* acquires a frame.
C19_ConfigureOnlyWithoutFrame ==
    LET configures == AppOps("configure")
        startup == { c \in configures : app_log[CallOf(c)].op = "resumed" }
    IN  /\ Cardinality(startup) <= 1
        /\ app.state = "Main" => Cardinality(startup) = 1
        /\ \A c \in startup :
              /\ app_log[c - 1].op = "request_device"
              /\ app_log[c - 1].res = "Ok"
              /\ \A a \in AppOps("get_current_texture") : c < a
        /\ \A a \in AppOps("get_current_texture") : startup # {}
        /\ \A c \in configures : HeldAt(c) = {}
        /\ \A c \in configures \ startup :
              /\ app_log[CallOf(c)].op = "RedrawRequested"
              /\ \A a \in AppOps("get_current_texture") : ~(CallOf(c) < a /\ a < c)

\* A frame was acquired and presented, the window was resized, and the next
\* draw cycle configured the surface again and then acquired its frame.
C19_Witness ==
    /\ Cardinality(AppOps("configure")) >= 2
    /\ LET c == Max(AppOps("configure"))
       IN  /\ app_log[CallOf(c)].op = "RedrawRequested"
           /\ \E a \in AppOps("get_current_texture") : a < c /\ app_log[a].res = "Ok"
           /\ \E a \in AppOps("get_current_texture") : a > c /\ app_log[a].res = "Ok"
           /\ \E k \in AppOps("present") : k > c

\* The handler call the application's log ends with, and the one before it.
LastCall == Max(CallsBefore(app_log, Len(app_log) + 1))
PreviousCall == Min(CallsBefore(app_log, Len(app_log) + 1))

\* The last handler was a draw cycle that presented its frame.
PresentCompleted ==
    /\ app_log # << >>
    /\ app_log[LastCall].op = "RedrawRequested"
    /\ OpsIn(app_log, Cycle(app_log, LastCall), "present") # {}

\* The last handler was a draw cycle.
DrawCycleRuns ==
    /\ app_log # << >>
    /\ app_log[LastCall].op = "RedrawRequested"

\* C16: after each completed present a request-redraw is sent to the window
\* (unless the loop was told to exit first), and a requested redraw leads to
\* another draw cycle: until close is requested, every completed present is
\* eventually followed by another draw cycle.
C16_RenderLoopContinues ==
    /\ PresentCompleted ~> (app.redraw_requested \/ app.exit)
    /\ app.redraw_requested ~> (DrawCycleRuns \/ app.exit)

\* A frame was presented, and the next handler, about_to_wait, requested the
\* redraw.
C16_Witness ==
    /\ app_log # << >>
    /\ PreviousCall < LastCall
    /\ app_log[PreviousCall].op = "RedrawRequested"
    /\ OpsIn(app_log, Cycle(app_log, PreviousCall), "present") # {}
    /\ app_log[LastCall].op = "about_to_wait"
    /\ OpsIn(app_log, Cycle(app_log, LastCall), "request_redraw") # {}
    /\ app.redraw_requested

\* C21: given the same resize and redraw events and the same acquisition
\* outcomes, the handling written inline in App::window_event and the entry
\* points Renderer::resize_surface / Renderer::draw make the same sequence
\* of surface operations (configure, acquire, submit, present, with the same
\* sizes, results and frames) and record the same width, height and
\* reconfigure flag.
C21_InlineEqualsEntryPoints ==
    /\ SurfaceTrace(app_log) = SurfaceTrace(log)
    /\ app.renderer[1].surface_config.width = renderer.surface_config.width
    /\ app.renderer[1].surface_config.height = renderer.surface_config.height
    /\ app.renderer[1].should_resize_surface = renderer.should_reconfigure_surface
    /\ app_surface = surface

\* Both sides started on 800x600, were resized to 400x400, reconfigured in
\* a draw that presented a frame, and then saw one acquisition fail.
C21_Witness ==
    /\ Len(SurfaceTrace(app_log)) >= 6
    /\ SurfaceTrace(app_log)[1].w = 800
    /\ Cardinality(OpsIn(log, DOMAIN log, "configure")) >= 2
    /\ OpsIn(app_log, DOMAIN app_log, "present") # {}
    /\ \E a \in OpsIn(log, DOMAIN log, "get_current_texture") : log[a].res = "Outdated"
    /\ renderer.surface_config.width = 400
    /\ app.renderer[1].should_resize_surface

====
